---------------------------- MODULE Spec2Model ----------------------------
(***************************************************************************)
(* The device-provisioning workflow of the DinoCore production flasher     *)
(* (production_flasherv1.2/gui_flasher.py): the port watcher               *)
(* (FlasherApp.scanner_worker), the per-device worker                      *)
(* (process_device_thread) and the helpers it sequences (burn_efuse,       *)
(* read_efuse_version, download_firmware, flash_device,                    *)
(* serial_monitor_thread).                                                 *)
(*                                                                         *)
(* Python strings are sequences of one-character strings, so that parsing  *)
(* and formatting are computed rather than assumed.  An Optional value is  *)
(* a sequence of length 0 (None) or 1 (the value).                         *)
(***************************************************************************)
EXTENDS Integers, Sequences, FiniteSets, TLC

(***************************************************************************)
(* Bounds of the model.                                                    *)
(***************************************************************************)
\* threads process_device_thread started in one run
MaxSessions == 2
\* commands the operator gives to the console and the technician GUI
MaxCommands == 2
\* scans the operator starts
MaxWatchers == 2
\* worker threads started over those scans
MaxRestartSessions == 1
\* devices auto_flasher.py flashes
MaxAutoFlashes == 3
\* lines of flasher output read in one run
MaxLines == 4

(***************************************************************************)
(* Program constants.                                                      *)
(***************************************************************************)
START_FREQ == 800
END_FREQ == 1200
ERROR_FREQ == 400
\* len(bytearray(32))
EFUSE_RECORD_LEN == 32
\* largest value a bytearray element accepts
BYTE_MAX == 255

None == << >>
Some(v) == << v >>
IsNone(o) == o = << >>
The(o) == o[1]

(***************************************************************************)
(* Text.                                                                   *)
(***************************************************************************)
Digits == <<"0", "1", "2", "3", "4", "5", "6", "7", "8", "9">>
HexDigits == <<"0", "1", "2", "3", "4", "5", "6", "7", "8", "9",
               "a", "b", "c", "d", "e", "f">>
\* re.IGNORECASE and int(b, 16) take the capitals too
HexCapitals == <<"0", "1", "2", "3", "4", "5", "6", "7", "8", "9",
                 "A", "B", "C", "D", "E", "F">>

IsDigit(c) == \E i \in 1..10 : Digits[i] = c
DigitVal(c) == (CHOOSE i \in 1..10 : Digits[i] = c) - 1

\* str.split('.'): the pieces between the dots, empty pieces kept
RECURSIVE SplitFrom(_, _, _)
SplitFrom(s, i, cur) ==
    IF i > Len(s) THEN << cur >>
    ELSE IF s[i] = "." THEN << cur >> \o SplitFrom(s, i + 1, << >>)
    ELSE SplitFrom(s, i + 1, Append(cur, s[i]))

split(s) == SplitFrom(s, 1, << >>)

\* str.strip() of the blanks int() ignores around a literal
RECURSIVE StripLeft(_)
StripLeft(s) == IF s # << >> /\ s[1] = " " THEN StripLeft(Tail(s)) ELSE s

RECURSIVE StripRight(_)
StripRight(s) ==
    IF s # << >> /\ s[Len(s)] = " " THEN StripRight(SubSeq(s, 1, Len(s) - 1)) ELSE s

\* the digit groups of an int() literal: digits, single underscores between them
IsDigitString(s) ==
    /\ s # << >>
    /\ IsDigit(s[1])
    /\ IsDigit(s[Len(s)])
    /\ \A i \in 1..Len(s) : IsDigit(s[i]) \/ s[i] = "_"
    /\ \A i \in 1..(Len(s) - 1) : ~(s[i] = "_" /\ s[i + 1] = "_")

RECURSIVE DigitsValue(_, _)
DigitsValue(s, acc) ==
    IF s = << >> THEN acc
    ELSE IF s[1] = "_" THEN DigitsValue(Tail(s), acc)
    ELSE DigitsValue(Tail(s), 10 * acc + DigitVal(s[1]))

\* int(text): None stands for ValueError
int(text) ==
    LET t == StripRight(StripLeft(text))
        signed == t # << >> /\ t[1] \in {"+", "-"}
        body == IF signed THEN Tail(t) ELSE t
    IN  IF ~IsDigitString(body) THEN None
        ELSE IF signed /\ t[1] = "-" THEN Some(0 - DigitsValue(body, 0))
        ELSE Some(DigitsValue(body, 0))

\* str(n) / f"{n}" of an integer
RECURSIVE str(_)
str(n) ==
    IF n < 0 THEN << "-" >> \o str(0 - n)
    ELSE IF n < 10 THEN << Digits[n + 1] >>
    ELSE str(n \div 10) \o << Digits[(n % 10) + 1] >>

\* f"{major}.{minor}.{patch}"
FormatVersion(major, minor, patch) ==
    str(major) \o <<".">> \o str(minor) \o <<".">> \o str(patch)

\* parse_version: None, or the tuple of the three ints
parse_version(version_string) ==
    LET parts == split(version_string)
    IN  IF Len(parts) # 3 THEN None
        ELSE IF \E i \in 1..3 : IsNone(int(parts[i])) THEN None
        ELSE Some(<< The(int(parts[1])), The(int(parts[2])), The(int(parts[3])) >>)

\* int(pair, 16) of a two-character hexadecimal group
IsHexDigit(c) == \E i \in 1..16 : HexDigits[i] = c \/ HexCapitals[i] = c
HexVal(c) == (CHOOSE i \in 1..16 : HexDigits[i] = c \/ HexCapitals[i] = c) - 1
int16(pair) == 16 * HexVal(pair[1]) + HexVal(pair[2])


(***************************************************************************)
(* Inputs: what the operator, the operating system, the device, the vendor *)
(* tools and the registry can supply.                                      *)
(***************************************************************************)
Ports == {"COM3", "COM4"}
Modes == {"testing", "production"}

V191 == <<"1", ".", "9", ".", "1">>
V180 == <<"1", ".", "8", ".", "0">>
\* another spelling of 1.9.1 that int() accepts
V0191 == <<"0", "1", ".", "9", ".", "1">>
\* not three parts
V19 == <<"1", ".", "9">>
\* a component no byte holds
V1300 == <<"1", ".", "3", "0", "0", ".", "1">>

\* what the Target HW Version entry may hold
TargetChoices == {V191, V0191, V19, V1300}

\* exit status of a vendor tool run with check=False
ToolExits == {"exit0", "nonzero"}
\* the chip_id reset probe may also time out or raise
ProbeOutcomes == {"exit0", "nonzero", "raise"}

\* The output of espefuse summary, as its words in order; a word is a
\* sequence of characters, a label is a word of one piece.
LABEL_BLOCK3 == << "BLOCK_USR_DATA (BLOCK3)" >>
LABEL_BLOCK4 == << "BLOCK_KEY0 (BLOCK4)" >>
EQUALS == << "=" >>
\* what espefuse prints for a byte it cannot read
UNREADABLE == << "?", "?" >>
Pair(a, b) == << a, b >>

\* [0-9a-f]{2} under re.IGNORECASE
IsHexPair(word) == Len(word) = 2 /\ IsHexDigit(word[1]) /\ IsHexDigit(word[2])

\* re.search(r"BLOCK_USR_DATA \(BLOCK3\).*?=\s*(..)\s*(..)\s*(..)", output,
\* re.DOTALL | re.IGNORECASE): from the first label, the first "=" that three
\* hex pairs follow, on whatever line it is; None if there is no match
re_search(output) ==
    LET labels == { i \in DOMAIN output : output[i] = LABEL_BLOCK3 }
        Starts(i) == { j \in DOMAIN output :
                         /\ j > i /\ j + 3 <= Len(output) /\ output[j] = EQUALS
                         /\ \A k \in 1..3 : IsHexPair(output[j + k]) }
    IN  IF labels = {} THEN None
        ELSE LET i == CHOOSE x \in labels : \A y \in labels : x <= y
             IN  IF Starts(i) = {} THEN None
                 ELSE LET j == CHOOSE x \in Starts(i) : \A y \in Starts(i) : x <= y
                      IN  Some(<< output[j + 1], output[j + 2], output[j + 3] >>)

\* re.search(r"([\d\.]+)\%", line) and int(float(match.group(1))), on a line
\* given as its words: the first "%" that a digit or a dot comes right before,
\* and the run of digits and dots that ends there.  kind is "none" (no
\* match), "value", or "raise" (the ValueError of float for a run that is no
\* number).
progress_of(line) ==
    LET IsNumeric(c) == IsDigit(c) \/ c = "."
        Hits(w) == { k \in 2..Len(line[w]) :
                       line[w][k] = "%" /\ IsNumeric(line[w][k - 1]) }
        words == { w \in DOMAIN line : Hits(w) # {} }
    IN  IF words = {} THEN [kind |-> "none", value |-> 0]
        ELSE LET w == CHOOSE x \in words : \A y \in words : x <= y
                 k == CHOOSE x \in Hits(w) : \A y \in Hits(w) : x <= y
                 from == CHOOSE i \in 1..(k - 1) :
                            /\ \A j \in i..(k - 1) : IsNumeric(line[w][j])
                            /\ i = 1 \/ ~IsNumeric(line[w][i - 1])
                 run == SubSeq(line[w], from, k - 1)
                 dots == { i \in DOMAIN run : run[i] = "." }
                 whole == IF dots = {} THEN run
                          ELSE SubSeq(run, 1, (CHOOSE i \in dots : TRUE) - 1)
             IN  IF Cardinality(dots) > 1 \/ Len(run) = Cardinality(dots)
                 THEN [kind |-> "raise", value |-> 0]
                 ELSE [kind |-> "value", value |-> DigitsValue(whole, 0)]

\* a summary whose user-data block holds the three bytes, then zeros
SummaryOf(a, b, c) ==
    << LABEL_BLOCK3, EQUALS, a, b, c, Pair("0", "0"),
       LABEL_BLOCK4, EQUALS, Pair("0", "0"), Pair("0", "0"), Pair("0", "0") >>

OUT_191 == SummaryOf(Pair("0", "1"), Pair("0", "9"), Pair("0", "1"))
OUT_180 == SummaryOf(Pair("0", "1"), Pair("0", "8"), Pair("0", "0"))

SummaryOutputs ==
    { << >>, OUT_191, OUT_180,
      \* a fresh device
      SummaryOf(Pair("0", "0"), Pair("0", "0"), Pair("0", "0")),
      \* capitals and two-digit components
      SummaryOf(Pair("F", "f"), Pair("0", "A"), Pair("1", "0")),
      \* no user-data block in the output
      << LABEL_BLOCK4, EQUALS, Pair("0", "1"), Pair("0", "2"), Pair("0", "3") >>,
      \* the label with nothing readable after it
      << LABEL_BLOCK3, EQUALS, UNREADABLE, UNREADABLE, UNREADABLE >>,
      \* the user-data block unreadable, a key block readable
      << LABEL_BLOCK3, EQUALS, UNREADABLE, UNREADABLE, UNREADABLE,
         LABEL_BLOCK4, EQUALS, Pair("0", "a"), Pair("0", "b"), Pair("0", "c") >> }

\* outcomes of the espefuse summary run: kind "nonzero" (exit status), "raise"
\* (timeout or another exception), "output" (exit 0, with result.stdout)
SummaryOutcomes ==
    { [kind |-> "nonzero", output |-> << >>], [kind |-> "raise", output |-> << >>] }
    \cup { [kind |-> "output", output |-> o] : o \in SummaryOutputs }

\* builds of the registry: id, created_at, supported_versions
Build(id, created, versions) ==
    [id |-> id, created_at |-> created, supported_versions |-> versions]

\* the four artifacts, in download order
file_types == <<"bootloader", "app", "partition_table", "ota_initial">>
filenames ==
    <<"bootloader.bin", "magical-toys.bin", "partition-table.bin", "ota_data_initial.bin">>
NFiles == Len(filenames)

\* answers of GET /api/<api_path>: status "error" is a RequestException; fail_at
\* is the artifact whose download raises (0: none does)
BuildLists ==
    { << >>,
      << Build("b1", 1, {V191}), Build("b2", 2, {V191, V180}), Build("b0", 2, {V191}) >>,
      << Build("b3", 1, {V180}) >> }

RegistryOutcomes ==
    { [status |-> "error", builds |-> << >>, fail_at |-> 0] }
    \cup { [status |-> "ok", builds |-> b, fail_at |-> k] : b \in BuildLists, k \in 0..NFiles }

\* outcomes of the esptool write_flash run: Popen raising, or the exit status
\* and whether an output line holds "No serial data received"
FlasherOutcomes ==
    { [kind |-> "raise", rc |-> 0, lockout |-> FALSE] }
    \cup { [kind |-> "exit", rc |-> 0, lockout |-> FALSE] }
    \cup { [kind |-> "exit", rc |-> 2, lockout |-> l] : l \in BOOLEAN }

(***************************************************************************)
(* Log lines and tones.  A log line is named by its fixed text.            *)
(***************************************************************************)
L_INVALID_FORMAT == "[X] Invalid version format"
L_READ_FAILED == "[X] Failed to read eFuse. Maybe locked?"
L_READ_ERROR == "[X] Error reading eFuse"
L_NO_COMPATIBLE == "[X] No compatible firmware found"
L_NETWORK_ERROR == "[X] Network error while downloading"
L_DOWNLOAD_FAILED == "[X] Download failed. Aborting flash."
L_FLASH_EXIT_CODE == "[X] Flash failed with exit code"
L_FLASH_UNEXPECTED == "[X] An unexpected error occurred during flash"
L_MONITOR_OPEN == "[X] Error opening serial monitor"
L_VERIFICATION_FAILED == "[X] VERIFICATION FAILED. Stopping."
L_NO_EXISTING == "[X] Could not read existing version after burn failure. Stopping."
L_PRODUCTION_FAILED == "[X] PRODUCTION FAILED: No eFuse version found."
L_FLASH_FAILED == "[X] Flash failed. Unable to complete device programming."
L_NO_VALID_VERSION == "[X] No valid hardware version found. Cannot proceed with flash."
L_UNEXPECTED == "!!!!!!!!!! UNEXPECTED ERROR in device processing thread !!!!!!!!!!!"
\* the flasher's own output line with the lockout marker, logged as it is read
L_RAW_NO_SERIAL == "A fatal error occurred: No serial data received."
\* the message of dino_console.py for a flasher locked out by the security fuses
L_USB_LOCKED == "USB appears to be locked out! This device likely has security eFuses burned."

(***************************************************************************)
(* The helpers of the worker, as functions of what the outside returns.    *)
(***************************************************************************)

\* read_efuse_version: the version string read, or None, and its error lines
read_efuse_version(summary) ==
    IF summary.kind = "nonzero" THEN [version |-> None, errlog |-> << L_READ_FAILED >>]
    ELSE IF summary.kind = "raise" THEN [version |-> None, errlog |-> << L_READ_ERROR >>]
    ELSE IF IsNone(re_search(summary.output)) THEN [version |-> None, errlog |-> << >>]
    ELSE LET m == The(re_search(summary.output))
             major == int16(m[1])
             minor == int16(m[2])
             patch == int16(m[3])
         IN  IF major = 0 /\ minor = 0 /\ patch = 0
             THEN [version |-> None, errlog |-> << >>]
             ELSE [version |-> Some(FormatVersion(major, minor, patch)), errlog |-> << >>]

\* a buffer with the version one byte further on
EfuseBuffer_shifted(major, minor, patch) ==
    [i \in 1..EFUSE_RECORD_LEN |->
        IF i = 2 THEN major ELSE IF i = 3 THEN minor ELSE IF i = 4 THEN patch ELSE 0]

\* bytearray(32) with the version in its first three bytes
EfuseBuffer(major, minor, patch) ==
    [i \in 1..EFUSE_RECORD_LEN |->
        IF i = 1 THEN major ELSE IF i = 2 THEN minor ELSE IF i = 3 THEN patch ELSE 0]

\* a burn_efuse that gives up when the reset probe did not exit 0
burn_efuse_gated(version, probe, cmd) ==
    LET version_parts == parse_version(version)
    IN  IF IsNone(version_parts)
        THEN [ret |-> "False", cmd_run |-> FALSE, buffer |-> None,
              errlog |-> << L_INVALID_FORMAT >>]
        ELSE LET v == The(version_parts)
             IN  IF probe # "exit0"
                 THEN [ret |-> "False", cmd_run |-> FALSE, buffer |-> None, errlog |-> << >>]
                 ELSE IF \E i \in 1..3 : v[i] < 0 \/ v[i] > BYTE_MAX
                 THEN [ret |-> "raise", cmd_run |-> FALSE, buffer |-> None, errlog |-> << >>]
                 ELSE [ret |-> IF cmd = "exit0" THEN "True" ELSE "False",
                       cmd_run |-> TRUE,
                       buffer |-> Some(EfuseBuffer(v[1], v[2], v[3])),
                       errlog |-> << >>]

\* burn_efuse: ret is "True", "False" or "raise" (the ValueError of a bytearray
\* element outside range(256)); cmd_run tells whether espefuse burn_block_data ran
burn_efuse(version, probe, cmd) ==
    LET version_parts == parse_version(version)
    IN  IF IsNone(version_parts)
        THEN [ret |-> "False", cmd_run |-> FALSE, buffer |-> None,
              errlog |-> << L_INVALID_FORMAT >>]
        ELSE LET v == The(version_parts)
             IN  IF \E i \in 1..3 : v[i] < 0 \/ v[i] > BYTE_MAX
                 THEN [ret |-> "raise", cmd_run |-> FALSE, buffer |-> None, errlog |-> << >>]
                 ELSE [ret |-> IF cmd = "exit0" THEN "True" ELSE "False",
                       cmd_run |-> TRUE,
                       buffer |-> Some(EfuseBuffer(v[1], v[2], v[3])),
                       errlog |-> << >>]

\* the buffer of DinoConsole.burn_board_version: the version, the four bytes
\* of build_timestamp from the lowest up, build_location = 0, and zeros
ConsoleEfuseBuffer(major, minor, patch, build_timestamp) ==
    [i \in 1..EFUSE_RECORD_LEN |->
        IF i = 1 THEN major
        ELSE IF i = 2 THEN minor
        ELSE IF i = 3 THEN patch
        ELSE IF i = 4 THEN build_timestamp % 256
        ELSE IF i = 5 THEN (build_timestamp \div 256) % 256
        ELSE IF i = 6 THEN (build_timestamp \div 65536) % 256
        ELSE IF i = 7 THEN (build_timestamp \div 16777216) % 256
        ELSE 0]

\* [b for b in builds if hardware_version in b.get('supported_versions', [])]
RECURSIVE Compatible(_, _)
Compatible(builds, hardware_version) ==
    IF builds = << >> THEN << >>
    ELSE (IF hardware_version \in Head(builds).supported_versions
          THEN << Head(builds) >> ELSE << >>)
         \o Compatible(Tail(builds), hardware_version)

\* a choice of the first compatible build, whatever its date
MaxByCreatedAt_first(compatible) == compatible[1]

\* max(compatible, key=lambda x: x['created_at']): the first of the greatest
RECURSIVE MaxByCreatedAt(_)
MaxByCreatedAt(compatible) ==
    IF Len(compatible) = 1 THEN compatible[1]
    ELSE LET rest == MaxByCreatedAt(Tail(compatible))
         IN  IF rest.created_at > compatible[1].created_at THEN rest ELSE compatible[1]

\* a firmware directory: what each of the four files holds (None: no file;
\* else the build it was downloaded from)
EmptyDir == [f \in 1..NFiles |-> None]

\* os.remove of every file of the directory
ClearDir(dir) == EmptyDir

\* download_firmware: ret, the directory afterwards, the build chosen, error lines
download_firmware(dir, hardware_version, resp) ==
    IF resp.status = "error"
    THEN [ret |-> FALSE, dir |-> dir, build |-> None, errlog |-> << L_NETWORK_ERROR >>]
    ELSE LET compatible == Compatible(resp.builds, hardware_version)
         IN  IF compatible = << >>
             THEN [ret |-> FALSE, dir |-> dir, build |-> None,
                   errlog |-> << L_NO_COMPATIBLE >>]
             ELSE LET latest_build == MaxByCreatedAt(compatible)
                      written == IF resp.fail_at = 0 THEN NFiles ELSE resp.fail_at - 1
                      after == [f \in 1..NFiles |->
                                   IF f <= written THEN Some(latest_build.id) ELSE dir[f]]
                  IN  IF resp.fail_at = 0
                      THEN [ret |-> TRUE, dir |-> after, build |-> Some(latest_build.id),
                            errlog |-> << >>]
                      ELSE [ret |-> FALSE, dir |-> after, build |-> Some(latest_build.id),
                            errlog |-> << L_NETWORK_ERROR >>]

(***************************************************************************)
(* State.                                                                  *)
(***************************************************************************)
VARIABLES
    \* the devices comports() enumerates
    ports,
    \* FlasherApp.scanner_stop_event
    scanner_stop_event,
    \* FlasherApp.hw_version_var
    hw_version_var,
    \* whether the stop button is shown (show_stop_button / show_mode_buttons)
    scanning,
    \* the scanner_worker threads started, in order
    watchers,
    \* the process_device_thread threads started, in order
    sessions,
    \* the files of FIRMWARE_DIR and TESTING_FIRMWARE_DIR
    fw_dir,
    \* the line the run is on, which fixes the outcomes its devices, vendor
    \* tools and registry can produce: "nominal", "pair" or "any" (set by the initial
    \* state, never changed by the program)
    env,
    \* dino_console.py and dino_technician_gui.py: what the operator was asked
    \* and what the commands ran, in order
    console,
    \* auto_flasher.py: the locals of main
    auto,
    \* partner_flasher.py: the lock file (None: no file; else the pid written)
    lock_file,
    \* partner_flasher.py: where each process of the flasher is in __main__
    procs,
    \* a version string, a summary output, and what the functions made of them
    calc

vars ==
    << ports, scanner_stop_event, hw_version_var, scanning, watchers, sessions, fw_dir, env,
       console, auto, lock_file, procs, calc >>

\* the state of gui_flasher.py
appvars ==
    << ports, scanner_stop_event, hw_version_var, scanning, watchers, sessions, fw_dir, env >>

\* the state of the other programs
elsewhere == << console, auto, lock_file, procs, calc >>

\* the partner flasher's processes, by process id
Pids == {101, 102, 103}
\* the process id a lock file left behind holds: no flasher has it
STALE_PID == 999

\* the other programs not started
ConsoleOff == [commands |-> 0, history |-> << >>]
AutoOff == [pc |-> "off", known_ports |-> {}, current_ports |-> {}, new_ports |-> {},
            port |-> None, flashed |-> << >>]
GuardOff == [q \in Pids |-> [pc |-> "off", pid |-> None]]
CalcOff == [pc |-> "off", version_string |-> << >>, parts |-> None, console_parts |-> None,
            text |-> None, summary |-> [kind |-> "raise", output |-> << >>],
            version |-> None,
            \* int(time.time()) when the console builds its buffer, and the
            \* buffers burn_efuse and DinoConsole.burn_board_version write
            build_timestamp |-> 0, buffer |-> None, console_buffer |-> None,
            \* the flasher's output, and for flash_device (gui_flasher.py) and
            \* flash_testing_firmware (partner_flasher.py) each: the lines read,
            \* the ('progress', n) items put on log_queue with the number of
            \* the line they were put for, and whether int(float(...)) raised
            lines |-> << >>,
            is_flashing_main_app |-> FALSE,
            gui |-> [read |-> 0, progress |-> << >>, raised |-> FALSE],
            partner |-> [read |-> 0, progress |-> << >>, raised |-> FALSE]]

\* gui_flasher.py not started
AppOff ==
    /\ ports = {}
    /\ scanner_stop_event = FALSE
    /\ hw_version_var = V191
    /\ scanning = FALSE
    /\ watchers = << >>
    /\ sessions = << >>
    /\ fw_dir = [m \in Modes |-> EmptyDir]
    /\ env = "nominal"

(***************************************************************************)
(* process_device_thread: one record per thread.  pc is the call the       *)
(* thread makes next; burn_successful, read_version and flash_hw_version   *)
(* are its locals; the other fields record what it did.                    *)
(***************************************************************************)
NewSession(w, port, mode, target_hw_version) ==
    [ \* the scanner_worker that started the thread
      watcher |-> w,
      port |-> port, mode |-> mode, target |-> target_hw_version,
      pc |-> IF mode = "testing" THEN "burn" ELSE "read_production",
      burn_successful |-> "unset",
      read_version |-> None,
      flash_hw_version |-> None,
      \* the outcome reported when the thread ended in failure
      failure |-> "none",
      \* frequencies given to play_sound, in order
      tones |-> << >>,
      \* the error lines put on log_queue (and the flasher's lockout line), in order
      errlog |-> << >>,
      \* how burn_efuse's chip_id reset probe went: "none" (not run), "exit0",
      \* "nonzero" or "raise" (a timeout or another exception)
      reset |-> "none",
      \* runs of espefuse burn_block_data
      burn_cmds |-> 0,
      \* calls of read_efuse_version
      reads |-> 0,
      \* the hardware_version of each download_firmware call
      downloads |-> << >>,
      \* download_firmware's locals at its last call: the list response.json()
      \* gave (None: the request raised) and the id of latest_build (None: no
      \* compatible build)
      builds |-> None,
      latest_build |-> None,
      \* each run of esptool write_flash: version, files given, outcome
      flashes |-> << >>,
      \* serial_monitor_thread was called
      monitor_entered |-> FALSE,
      \* how its loop was left: "none" (not yet), "stopped" (the stop event;
      \* port closed) or "disconnected" (a break: the disconnection is logged,
      \* the port closed)
      monitor_end |-> "none" ]

Running(s) == s.pc # "done"

\* a failure branch: its log lines, its error tones, and the thread ends
Failed(s, kind, lines, tones) ==
    [s EXCEPT !.pc = "done", !.failure = kind,
              !.errlog = @ \o lines, !.tones = @ \o tones]

\* the except clause of process_device_thread
Unexpected(s) == Failed(s, "unexpected_exception", << L_UNEXPECTED >>, << ERROR_FREQ >>)

\* if flash_hw_version: ... else: "No valid hardware version found"
Truthy(version) == ~IsNone(version) /\ The(version) # << >>

ToFlash(s) ==
    IF Truthy(s.flash_hw_version) THEN [s EXCEPT !.pc = "fetch"]
    ELSE Failed(s, "no_valid_version", << L_NO_VALID_VERSION >>, << ERROR_FREQ >>)

\* testing mode: burn_efuse and the branch on its result
burn_branch(s, probe, cmd) ==
    LET r == burn_efuse(s.target, probe, cmd)
        s1 == [s EXCEPT !.errlog = @ \o r.errlog,
                        !.reset = IF IsNone(parse_version(s.target)) THEN "none" ELSE probe,
                        !.burn_cmds = @ + (IF r.cmd_run THEN 1 ELSE 0)]
    IN  IF r.ret = "raise" THEN Unexpected(s1)
        ELSE IF r.ret = "True" THEN [s1 EXCEPT !.burn_successful = "True", !.pc = "verify"]
        ELSE [s1 EXCEPT !.burn_successful = "False", !.pc = "read_existing"]

\* the read of the eFuse common to the three branches
AfterRead(s, r) ==
    [s EXCEPT !.read_version = r.version, !.errlog = @ \o r.errlog, !.reads = @ + 1]

\* a verification that accepts any version read back
verify_branch_lenient(s, summary) ==
    LET s1 == AfterRead(s, read_efuse_version(summary))
    IN  IF Truthy(s1.read_version)
        THEN ToFlash([s1 EXCEPT !.flash_hw_version = s1.read_version])
        ELSE Failed(s1, "verification_failed", << L_VERIFICATION_FAILED >>, << ERROR_FREQ >>)

\* testing mode, burn succeeded: read back and compare with the target
verify_branch(s, summary) ==
    LET s1 == AfterRead(s, read_efuse_version(summary))
    IN  IF s1.read_version = Some(s.target)
        THEN ToFlash([s1 EXCEPT !.flash_hw_version = Some(s.target)])
        ELSE Failed(s1, "verification_failed", << L_VERIFICATION_FAILED >>, << ERROR_FREQ >>)

\* a fallback that insists on the target version
existing_branch_strict(s, summary) ==
    LET s1 == AfterRead(s, read_efuse_version(summary))
    IN  IF s1.read_version = Some(s.target)
        THEN ToFlash([s1 EXCEPT !.flash_hw_version = s1.read_version])
        ELSE Failed(s1, "verification_failed", << L_VERIFICATION_FAILED >>, << ERROR_FREQ >>)

\* testing mode, burn failed: proceed with the version already burned
existing_branch(s, summary) ==
    LET s1 == AfterRead(s, read_efuse_version(summary))
    IN  IF Truthy(s1.read_version)
        THEN ToFlash([s1 EXCEPT !.flash_hw_version = s1.read_version])
        ELSE Failed(s1, "no_existing_version", << L_NO_EXISTING >>, << ERROR_FREQ >>)

\* a production branch that falls back to the target when nothing is read
production_branch_default(s, summary) ==
    LET s1 == AfterRead(s, read_efuse_version(summary))
    IN  IF Truthy(s1.read_version)
        THEN ToFlash([s1 EXCEPT !.flash_hw_version = s1.read_version])
        ELSE ToFlash([s1 EXCEPT !.flash_hw_version = Some(s.target)])

\* a production branch that flashes for the configured target
production_branch_target(s, summary) ==
    LET s1 == AfterRead(s, read_efuse_version(summary))
    IN  IF Truthy(s1.read_version)
        THEN ToFlash([s1 EXCEPT !.flash_hw_version = Some(s.target)])
        ELSE Failed(s1, "production_no_version", << L_PRODUCTION_FAILED >>, << ERROR_FREQ >>)

\* production mode: flash for the version found on the eFuse
production_branch(s, summary) ==
    LET s1 == AfterRead(s, read_efuse_version(summary))
    IN  IF Truthy(s1.read_version)
        THEN ToFlash([s1 EXCEPT !.flash_hw_version = s1.read_version])
        ELSE Failed(s1, "production_no_version", << L_PRODUCTION_FAILED >>, << ERROR_FREQ >>)

\* a flash_device that goes on to the flasher whatever download_firmware returned
fetch_branch_regardless(s, dir, resp) ==
    LET hw == The(s.flash_hw_version)
        d == download_firmware(ClearDir(dir), hw, resp)
    IN  [ dir |-> d.dir,
          s |-> [s EXCEPT !.tones = @ \o << START_FREQ >>,
                          !.downloads = Append(@, hw),
                          !.builds = IF resp.status = "ok" THEN Some(resp.builds) ELSE None,
                          !.latest_build = d.build,
                          !.errlog = @ \o d.errlog,
                          !.pc = "flash"] ]

\* a flash_device that downloads over the files it finds
fetch_branch_keep(s, dir, resp) ==
    LET hw == The(s.flash_hw_version)
        d == download_firmware(dir, hw, resp)
        s1 == [s EXCEPT !.tones = @ \o << START_FREQ >>,
                        !.downloads = Append(@, hw),
                        !.builds = IF resp.status = "ok" THEN Some(resp.builds) ELSE None,
                        !.latest_build = d.build,
                        !.errlog = @ \o d.errlog]
    IN  [ dir |-> d.dir,
          s |-> IF d.ret THEN [s1 EXCEPT !.pc = "flash"]
                ELSE Failed(s1, "fetch_failed", << L_DOWNLOAD_FAILED, L_FLASH_FAILED >>,
                            << ERROR_FREQ, ERROR_FREQ >>) ]

\* flash_device up to the download: the start tone, the directory cleared,
\* download_firmware; on failure flash_device and its caller each report
fetch_branch(s, dir, resp) ==
    LET hw == The(s.flash_hw_version)
        d == download_firmware(ClearDir(dir), hw, resp)
        s1 == [s EXCEPT !.tones = @ \o << START_FREQ >>,
                        !.downloads = Append(@, hw),
                        !.builds = IF resp.status = "ok" THEN Some(resp.builds) ELSE None,
                        !.latest_build = d.build,
                        !.errlog = @ \o d.errlog]
    IN  [ dir |-> d.dir,
          s |-> IF d.ret THEN [s1 EXCEPT !.pc = "flash"]
                ELSE Failed(s1, "fetch_failed", << L_DOWNLOAD_FAILED, L_FLASH_FAILED >>,
                            << ERROR_FREQ, ERROR_FREQ >>) ]

\* a flasher step that ends the thread after a successful flash
flasher_branch_no_monitor(s, dir, out) ==
    LET s1 == [s EXCEPT !.flashes =
                   Append(@, [hw |-> The(s.flash_hw_version), files |-> dir, out |-> out])]
    IN  IF out.kind = "raise" \/ out.rc # 0
        THEN Failed(s1, "flash_failed", << L_FLASH_EXIT_CODE, L_FLASH_FAILED >>,
                    << ERROR_FREQ, ERROR_FREQ >>)
        ELSE [s1 EXCEPT !.tones = @ \o << END_FREQ >>, !.pc = "done"]

\* a flasher step that tries again after a nonzero exit
flasher_branch_retry(s, dir, out) ==
    LET s1 == [s EXCEPT !.flashes =
                   Append(@, [hw |-> The(s.flash_hw_version), files |-> dir, out |-> out])]
    IN  IF out.kind = "raise"
        THEN Failed(s1, "flash_failed", << L_FLASH_UNEXPECTED, L_FLASH_FAILED >>,
                    << ERROR_FREQ, ERROR_FREQ >>)
        ELSE IF out.rc # 0
        THEN [s1 EXCEPT !.errlog = @ \o << L_FLASH_EXIT_CODE >>,
                        !.tones = @ \o << ERROR_FREQ >>]
        ELSE [s1 EXCEPT !.tones = @ \o << END_FREQ >>, !.pc = "monitor_open",
                        !.monitor_entered = TRUE]

\* flash_device from Popen on: the flasher runs on the four files of the
\* directory; exit 0 leads to the monitor, anything else is reported twice
flasher_branch(s, dir, out) ==
    LET s1 == [s EXCEPT !.flashes =
                   Append(@, [hw |-> The(s.flash_hw_version), files |-> dir, out |-> out]),
                        !.errlog = IF out.lockout THEN Append(@, L_RAW_NO_SERIAL) ELSE @]
    IN  IF out.kind = "raise"
        THEN Failed(s1, "flash_failed", << L_FLASH_UNEXPECTED, L_FLASH_FAILED >>,
                    << ERROR_FREQ, ERROR_FREQ >>)
        ELSE IF out.rc # 0
        THEN Failed(s1, "flash_failed", << L_FLASH_EXIT_CODE, L_FLASH_FAILED >>,
                    << ERROR_FREQ, ERROR_FREQ >>)
        ELSE [s1 EXCEPT !.tones = @ \o << END_FREQ >>, !.pc = "monitor_open",
                        !.monitor_entered = TRUE]

\* serial_monitor_thread: serial.Serial(port, ...) opens or raises
monitor_open_branch(s, opened) ==
    IF opened THEN [s EXCEPT !.pc = "monitor"]
    ELSE Failed(s, "monitor_open_failed", << L_MONITOR_OPEN >>, << >>)

\* a loop that does not look at the port list
monitor_turn_unaware(s, stop_set, present, event) ==
    IF stop_set THEN [s EXCEPT !.pc = "done", !.monitor_end = "stopped"]
    ELSE IF event = "serial_exception"
    THEN [s EXCEPT !.pc = "done", !.monitor_end = "disconnected"]
    ELSE s

\* serial_monitor_thread: one turn of its loop.  event is "data" (a line is
\* read), "idle" (nothing waiting: the port list is looked at) or
\* "serial_exception" (serial.SerialException from in_waiting or readline)
monitor_turn(s, stop_set, present, event) ==
    IF stop_set THEN [s EXCEPT !.pc = "done", !.monitor_end = "stopped"]
    ELSE IF event = "data" THEN s
    ELSE IF event = "idle" /\ present THEN s
    ELSE [s EXCEPT !.pc = "done", !.monitor_end = "disconnected"]

(***************************************************************************)
(* The environment of a run.                                               *)
(***************************************************************************)
MonitorEvents == {"data", "idle", "serial_exception"}

\* every outcome the model knows
AnyEnv ==
    [ probes |-> ProbeOutcomes, burns |-> ToolExits, summaries |-> SummaryOutcomes,
      registry |-> RegistryOutcomes, flashers |-> FlasherOutcomes, opens |-> BOOLEAN,
      events |-> MonitorEvents ]

\* a line where the tools and the network work: a device is fresh (the burn
\* exits 0) or already burned (the burn is refused), its eFuse reads 1.9.1,
\* the registry has builds for it, the flasher and the serial port work
NominalEnv ==
    [ probes |-> {"exit0"}, burns |-> ToolExits,
      summaries |-> { [kind |-> "output", output |-> OUT_191] },
      registry |-> { [status |-> "ok",
                      builds |-> << Build("b1", 1, {V191}), Build("b2", 2, {V191, V180}),
                                    Build("b0", 2, {V191}) >>,
                      fail_at |-> 0] },
      flashers |-> { [kind |-> "exit", rc |-> 0, lockout |-> FALSE] },
      opens |-> {TRUE},
      events |-> {"idle"} ]

\* a line whose devices hold 1.9.1 or 1.8.0, each with its own latest build,
\* and whose network may be down when the registry is asked
PairEnv ==
    [ probes |-> {"exit0"}, burns |-> ToolExits,
      summaries |-> { [kind |-> "output", output |-> OUT_191],
                      [kind |-> "output", output |-> OUT_180] },
      registry |-> { [status |-> "ok",
                      builds |-> << Build("b1", 1, {V191, V180}), Build("b2", 2, {V180}),
                                    Build("b0", 2, {V191}) >>,
                      fail_at |-> 0],
                     [status |-> "error", builds |-> << >>, fail_at |-> 0] },
      flashers |-> { [kind |-> "exit", rc |-> 0, lockout |-> FALSE] },
      opens |-> {TRUE},
      events |-> {"idle"} ]

\* what the environment of the run can produce
Outcomes ==
    IF env = "nominal" THEN NominalEnv ELSE IF env = "pair" THEN PairEnv ELSE AnyEnv

(***************************************************************************)
(* The steps of a worker thread.                                           *)
(***************************************************************************)
SetSession(i, s) == sessions' = [sessions EXCEPT ![i] = s]

Burn(i) ==
    /\ sessions[i].pc = "burn"
    /\ \E probe \in Outcomes.probes, cmd \in Outcomes.burns :
          SetSession(i, burn_branch(sessions[i], probe, cmd))
    /\ UNCHANGED << ports, scanner_stop_event, hw_version_var, scanning, watchers, fw_dir, env, elsewhere >>

Verify(i) ==
    /\ sessions[i].pc = "verify"
    /\ \E summary \in Outcomes.summaries : SetSession(i, verify_branch(sessions[i], summary))
    /\ UNCHANGED << ports, scanner_stop_event, hw_version_var, scanning, watchers, fw_dir, env, elsewhere >>

ReadExisting(i) ==
    /\ sessions[i].pc = "read_existing"
    /\ \E summary \in Outcomes.summaries : SetSession(i, existing_branch(sessions[i], summary))
    /\ UNCHANGED << ports, scanner_stop_event, hw_version_var, scanning, watchers, fw_dir, env, elsewhere >>

ReadProduction(i) ==
    /\ sessions[i].pc = "read_production"
    /\ \E summary \in Outcomes.summaries : SetSession(i, production_branch(sessions[i], summary))
    /\ UNCHANGED << ports, scanner_stop_event, hw_version_var, scanning, watchers, fw_dir, env, elsewhere >>

Fetch(i) ==
    /\ sessions[i].pc = "fetch"
    /\ \E resp \in Outcomes.registry :
          LET r == fetch_branch(sessions[i], fw_dir[sessions[i].mode], resp)
          IN  /\ SetSession(i, r.s)
              /\ fw_dir' = [fw_dir EXCEPT ![sessions[i].mode] = r.dir]
    /\ UNCHANGED << ports, scanner_stop_event, hw_version_var, scanning, watchers, env, elsewhere >>

Flash(i) ==
    /\ sessions[i].pc = "flash"
    /\ \E out \in Outcomes.flashers :
          SetSession(i, flasher_branch(sessions[i], fw_dir[sessions[i].mode], out))
    /\ UNCHANGED << ports, scanner_stop_event, hw_version_var, scanning, watchers, fw_dir, env, elsewhere >>

MonitorOpen(i) ==
    /\ sessions[i].pc = "monitor_open"
    /\ \E opened \in Outcomes.opens : SetSession(i, monitor_open_branch(sessions[i], opened))
    /\ UNCHANGED << ports, scanner_stop_event, hw_version_var, scanning, watchers, fw_dir, env, elsewhere >>

Monitor(i) ==
    /\ sessions[i].pc = "monitor"
    /\ \E event \in Outcomes.events :
          SetSession(i, monitor_turn(sessions[i], scanner_stop_event,
                                     sessions[i].port \in ports, event))
    /\ UNCHANGED << ports, scanner_stop_event, hw_version_var, scanning, watchers, fw_dir, env, elsewhere >>

(***************************************************************************)
(* The operator and the devices.                                           *)
(***************************************************************************)
\* a device is plugged in
Plug(p) ==
    /\ p \notin ports
    /\ ports' = ports \cup {p}
    /\ UNCHANGED << scanner_stop_event, hw_version_var, scanning, watchers, sessions, fw_dir, env, elsewhere >>

\* a device is unplugged, or resets off the bus
Unplug(p) ==
    /\ p \in ports
    /\ ports' = ports \ {p}
    /\ UNCHANGED << scanner_stop_event, hw_version_var, scanning, watchers, sessions, fw_dir, env, elsewhere >>

NewWatcher(mode) ==
    [pc |-> "start", mode |-> mode, known_ports |-> {}, target_hw_version |-> None]

\* select_mode_production / select_mode_testing with the dialog accepted:
\* start_scanner(mode)
start_scanner(mode) ==
    /\ ~scanning
    /\ scanning' = TRUE
    /\ scanner_stop_event' = FALSE
    /\ watchers' = Append(watchers, NewWatcher(mode))
    /\ UNCHANGED << ports, hw_version_var, sessions, fw_dir, env, elsewhere >>

stop_scanner ==
    /\ scanning
    /\ scanner_stop_event' = TRUE
    /\ scanning' = FALSE
    /\ UNCHANGED << ports, hw_version_var, watchers, sessions, fw_dir, env, elsewhere >>

(***************************************************************************)
(* scanner_worker.                                                         *)
(***************************************************************************)
\* the lines before the loop: the ports present are known, the target is read
scanner_begin(w) ==
    /\ watchers[w].pc = "start"
    /\ watchers' = [watchers EXCEPT ![w] =
          [@ EXCEPT !.pc = "loop", !.known_ports = ports,
                    !.target_hw_version = Some(hw_version_var)]]
    /\ UNCHANGED << ports, scanner_stop_event, hw_version_var, scanning, sessions, fw_dir, env, elsewhere >>

\* a loop that starts the thread but does not record the port
known_after_forgetful(known_ports, current_ports, port_to_flash) ==
    known_ports \ (known_ports \ current_ports)

\* a loop that never forgets a port
known_after_sticky(known_ports, current_ports, port_to_flash) ==
    IF IsNone(port_to_flash) THEN known_ports ELSE known_ports \cup {The(port_to_flash)}

\* a loop that takes every port enumerated as known after the turn
known_after_all(known_ports, current_ports, port_to_flash) == current_ports

\* known_ports after one turn of the loop that took port_to_flash (None: no new port)
known_after(known_ports, current_ports, port_to_flash) ==
    LET added == IF IsNone(port_to_flash) THEN known_ports
                 ELSE known_ports \cup {The(port_to_flash)}
        disconnected_ports == added \ current_ports
    IN  added \ disconnected_ports

\* one turn of the loop: the stop event ends it; else one new port, if any,
\* gets a thread, and the ports gone are forgotten
scanner_poll(w) ==
    /\ watchers[w].pc = "loop"
    /\ IF scanner_stop_event
       THEN /\ watchers' = [watchers EXCEPT ![w].pc = "exited"]
            /\ UNCHANGED sessions
       ELSE LET current_ports == ports
                new_ports == current_ports \ watchers[w].known_ports
            IN  IF new_ports # {}
                THEN \E port_to_flash \in new_ports :
                        /\ watchers' = [watchers EXCEPT ![w].known_ports =
                              known_after(@, current_ports, Some(port_to_flash))]
                        /\ sessions' = Append(sessions,
                              NewSession(w, port_to_flash, watchers[w].mode,
                                         The(watchers[w].target_hw_version)))
                ELSE /\ watchers' = [watchers EXCEPT ![w].known_ports =
                              known_after(@, current_ports, None)]
                     /\ UNCHANGED sessions
    /\ UNCHANGED << ports, scanner_stop_event, hw_version_var, scanning, fw_dir, env, elsewhere >>

(***************************************************************************)
(* The application.                                                        *)
(***************************************************************************)
\* the application constructed (FlasherApp.__init__) with the target version
\* of the default config.ini, on a working line
Init ==
    /\ ports \in SUBSET Ports
    /\ scanner_stop_event = FALSE
    /\ hw_version_var = V191
    /\ scanning = FALSE
    /\ watchers = << >>
    /\ sessions = << >>
    /\ fw_dir = [m \in Modes |-> EmptyDir]
    /\ env = "nominal"
    /\ console = ConsoleOff /\ auto = AutoOff
    /\ lock_file = None /\ procs = GuardOff /\ calc = CalcOff

\* The application through its first scan: the operator picks a mode once and
\* may stop the scan; at most MaxSessions worker threads are started.
Next ==
    \/ \E p \in Ports : Plug(p)
    \/ \E p \in Ports : Unplug(p)
    \/ \E mode \in Modes : start_scanner(mode) /\ watchers = << >>
    \/ stop_scanner
    \/ \E w \in DOMAIN watchers : scanner_begin(w)
    \/ \E w \in DOMAIN watchers : scanner_poll(w) /\ Len(sessions') <= MaxSessions
    \/ \E i \in DOMAIN sessions : Burn(i)
    \/ \E i \in DOMAIN sessions : Verify(i)
    \/ \E i \in DOMAIN sessions : ReadExisting(i)
    \/ \E i \in DOMAIN sessions : ReadProduction(i)
    \/ \E i \in DOMAIN sessions : Fetch(i)
    \/ \E i \in DOMAIN sessions : Flash(i)
    \/ \E i \in DOMAIN sessions : MonitorOpen(i)
    \/ \E i \in DOMAIN sessions : Monitor(i)

Spec == Init /\ [][Next]_vars

\* The same with the scheduling of the watcher thread: a scanner_worker that
\* was started runs, and its time.sleep(2) returns, so the lines before its
\* loop and every turn of the loop are taken in the end.
SpecLive ==
    /\ Spec
    /\ \A w \in 1..MaxWatchers :
          /\ WF_vars(w \in DOMAIN watchers /\ scanner_begin(w))
          /\ WF_vars(w \in DOMAIN watchers /\ scanner_poll(w)
                        /\ Len(sessions') <= MaxSessions)

(***************************************************************************)
(* One worker thread against every environment: the state in which a       *)
(* watcher has just started process_device_thread for a port that appeared,*)
(* for every mode and every target the entry may hold; the thread runs     *)
(* while devices come and go and the operator may stop the scan.  The      *)
(* firmware directories are empty or hold the files an earlier run left.   *)
(***************************************************************************)
InitSession ==
    \E p \in Ports, mode \in Modes, target \in TargetChoices,
       dir \in {EmptyDir, [f \in 1..NFiles |-> Some("old")]} :
        /\ ports = {p}
        /\ scanner_stop_event = FALSE
        /\ hw_version_var = target
        /\ scanning = TRUE
        /\ watchers = << [pc |-> "loop", mode |-> mode, known_ports |-> {p},
                          target_hw_version |-> Some(target)] >>
        /\ sessions = << NewSession(1, p, mode, target) >>
        /\ fw_dir = [m \in Modes |-> dir]
        /\ env = "any"
        /\ console = ConsoleOff /\ auto = AutoOff
        /\ lock_file = None /\ procs = GuardOff /\ calc = CalcOff

NextSession ==
    \/ \E i \in DOMAIN sessions : Burn(i)
    \/ \E i \in DOMAIN sessions : Verify(i)
    \/ \E i \in DOMAIN sessions : ReadExisting(i)
    \/ \E i \in DOMAIN sessions : ReadProduction(i)
    \/ \E i \in DOMAIN sessions : Fetch(i)
    \/ \E i \in DOMAIN sessions : Flash(i)
    \/ \E i \in DOMAIN sessions : MonitorOpen(i)
    \/ \E i \in DOMAIN sessions : Monitor(i)
    \/ \E p \in Ports : Plug(p)
    \/ \E p \in Ports : Unplug(p)
    \/ stop_scanner

SpecSession == InitSession /\ [][NextSession]_vars

(***************************************************************************)
(* dino_console.py (DinoConsole.parse_command, the later of its two         *)
(* definitions) and the buttons of dino_technician_gui.py.  The history is *)
(* what the operator did and was asked, and what was run, in order.        *)
(***************************************************************************)
\* The history holds, as strings: what the operator did ("dino> ..." for a
\* command typed at the console, "button ..." for a button of the technician
\* window), the answers to input("Type 'YES' to continue: ") ("typed ...") and
\* to askokcancel ("askokcancel: ..."), what was run ("espefuse ...",
\* "esptool ...", "open_monitor") and what was reported instead.

\* DinoConsole.parse_version: three integers, each in 0..255, or None
console_parse_version(version_string) ==
    LET parts == split(version_string)
    IN  IF Len(parts) # 3 THEN None
        ELSE IF \E i \in 1..3 : IsNone(int(parts[i])) THEN None
        ELSE LET major == The(int(parts[1]))
                 minor == The(int(parts[2]))
                 patch == The(int(parts[3]))
             IN  IF ~(0 <= major /\ major <= BYTE_MAX /\ 0 <= minor /\ minor <= BYTE_MAX
                      /\ 0 <= patch /\ patch <= BYTE_MAX)
                 THEN None
                 ELSE Some(<< major, minor, patch >>)

\* parse_command, "flash production <port>"
parse_command_flash_production(history, resolved, typed, files, flashed) ==
    IF ~resolved THEN Append(history, "device not resolved")
    ELSE IF typed # "typed YES" THEN history \o << typed, "cancelled" >>
    ELSE IF ~files THEN history \o << typed, "firmware not available" >>
    ELSE history \o << typed, "esptool write_flash (production)" >>
           \o (IF flashed THEN << "open_monitor" >> ELSE << >>)

\* parse_command, "flash testing <port>"
parse_command_flash_testing(history, resolved, files, flashed) ==
    IF ~resolved THEN Append(history, "device not resolved")
    ELSE IF ~files THEN Append(history, "firmware not available")
    ELSE history \o << "esptool write_flash (testing)" >>
           \o (IF flashed THEN << "open_monitor" >> ELSE << >>)

\* DinoConsole.burn_board_version
burn_board_version(history, hardware_version, test_mode) ==
    IF IsNone(console_parse_version(hardware_version))
    THEN Append(history, "Invalid version format")
    ELSE IF test_mode THEN Append(history, "Test mode completed")
    ELSE Append(history, "espefuse burn_block_data BLOCK3")

\* parse_command, "burn efuse <port> [--test]"
parse_command_burn_efuse(history, resolved, hardware_version, test_mode) ==
    IF ~resolved THEN Append(history, "device not resolved")
    ELSE burn_board_version(history, hardware_version, test_mode)

\* DinoTechnicianApp.flash_production
flash_production(history, selected, answer, resolved, typed, files, flashed) ==
    IF ~selected THEN Append(history, "No Device Selected")
    ELSE IF answer # "askokcancel: OK" THEN Append(history, answer)
    ELSE parse_command_flash_production(Append(history, answer), resolved, typed, files,
                                        flashed)

\* DinoTechnicianApp.burn_efuse
technician_burn_efuse(history, selected, answer, resolved, hardware_version) ==
    IF ~selected THEN Append(history, "No Device Selected")
    ELSE IF answer # "askokcancel: OK" THEN Append(history, answer)
    ELSE parse_command_burn_efuse(Append(history, answer), resolved, hardware_version, FALSE)

\* the operator gives one command; it runs to its end
Command(op, h) ==
    /\ console.commands < MaxCommands
    /\ console' = [commands |-> console.commands + 1, history |-> h]
    /\ UNCHANGED << appvars, auto, lock_file, procs, calc >>

ConsoleFlashProduction ==
    \E resolved, files, flashed \in BOOLEAN, typed \in { "typed YES", "typed yes", "typed nothing" } :
        Command("dino> flash production <port>",
                parse_command_flash_production(
                    Append(console.history, "dino> flash production <port>"),
                    resolved, typed, files, flashed))

ConsoleFlashTesting ==
    \E resolved, files, flashed \in BOOLEAN :
        Command("dino> flash testing <port>",
                parse_command_flash_testing(
                    Append(console.history, "dino> flash testing <port>"),
                    resolved, files, flashed))

ConsoleBurnEfuse ==
    \E resolved, test_mode \in BOOLEAN, hardware_version \in TargetChoices :
        LET op == IF test_mode THEN "dino> burn efuse <port> --test" ELSE "dino> burn efuse <port>"
        IN  Command(op, parse_command_burn_efuse(Append(console.history, op),
                                                 resolved, hardware_version, test_mode))

TechnicianFlashProduction ==
    \E selected, resolved, files, flashed \in BOOLEAN,
       answer \in {"askokcancel: OK", "askokcancel: Cancel"}, typed \in { "typed YES", "typed yes", "typed nothing" } :
        Command("button Flash Production",
                flash_production(Append(console.history, "button Flash Production"),
                                 selected, answer, resolved, typed, files, flashed))

TechnicianBurnEfuse ==
    \E selected, resolved \in BOOLEAN, answer \in {"askokcancel: OK", "askokcancel: Cancel"},
       hardware_version \in TargetChoices :
        Command("button Burn eFuse",
                technician_burn_efuse(Append(console.history, "button Burn eFuse"),
                                      selected, answer, resolved, hardware_version))

InitConsole ==
    /\ AppOff
    /\ console = ConsoleOff /\ auto = AutoOff
    /\ lock_file = None /\ procs = GuardOff /\ calc = CalcOff

NextConsole ==
    \/ ConsoleFlashProduction
    \/ ConsoleFlashTesting
    \/ ConsoleBurnEfuse
    \/ TechnicianFlashProduction
    \/ TechnicianBurnEfuse

SpecConsole == InitConsole /\ [][NextConsole]_vars

(***************************************************************************)
(* auto_flasher.py: main.  pc is "start" (before the first download),      *)
(* "poll" (at the head of the loop, or asleep), "flashing" (inside         *)
(* flash_firmware for port, called from the for loop over new_ports) or    *)
(* "exited".                                                               *)
(***************************************************************************)
\* what flash_firmware returns: True, or False after a failed download or a
\* failed flash

\* the lines before the loop: download_firmware_files, then the ports
\* present are known
auto_begin ==
    /\ auto.pc = "start"
    /\ \E downloaded \in BOOLEAN :
          auto' = IF downloaded THEN [auto EXCEPT !.pc = "poll", !.known_ports = ports]
                  ELSE [auto EXCEPT !.pc = "exited"]
    /\ UNCHANGED << appvars, console, lock_file, procs, calc >>

\* the head of the loop: the ports are enumerated; flash_firmware is entered
\* for the first new one, or known_ports is replaced
auto_poll ==
    /\ auto.pc = "poll"
    /\ LET current_ports == ports
           new_ports == current_ports \ auto.known_ports
       IN  IF new_ports = {}
           THEN auto' = [auto EXCEPT !.known_ports = current_ports,
                                     !.current_ports = current_ports]
           ELSE \E port \in new_ports :
                   auto' = [auto EXCEPT !.pc = "flashing", !.port = Some(port),
                                        !.current_ports = current_ports,
                                        !.new_ports = new_ports \ {port}]
    /\ UNCHANGED << appvars, console, lock_file, procs, calc >>

\* flash_firmware returns; the for loop goes on with the next new port, or
\* the turn ends with known_ports = current_ports
auto_flash_returns ==
    /\ auto.pc = "flashing"
    /\ \E result \in {"flashed", "download_failed", "flash_failed"} :
          LET done == Append(auto.flashed, [port |-> The(auto.port), result |-> result])
          IN  IF auto.new_ports = {}
              THEN auto' = [auto EXCEPT !.pc = "poll", !.port = None, !.flashed = done,
                                        !.known_ports = auto.current_ports]
              ELSE \E port \in auto.new_ports :
                      auto' = [auto EXCEPT !.port = Some(port), !.flashed = done,
                                           !.new_ports = auto.new_ports \ {port}]
    /\ UNCHANGED << appvars, console, lock_file, procs, calc >>

InitAuto ==
    /\ ports \in SUBSET Ports
    /\ scanner_stop_event = FALSE
    /\ hw_version_var = V191
    /\ scanning = FALSE
    /\ watchers = << >>
    /\ sessions = << >>
    /\ fw_dir = [m \in Modes |-> EmptyDir]
    /\ env = "nominal"
    /\ console = ConsoleOff
    /\ auto = [AutoOff EXCEPT !.pc = "start"]
    /\ lock_file = None /\ procs = GuardOff /\ calc = CalcOff

NextAuto ==
    \/ \E p \in Ports : Plug(p)
    \/ \E p \in Ports : Unplug(p)
    \/ auto_begin
    \/ auto_poll /\ Len(auto.flashed) + Cardinality(ports \ auto.known_ports) <= MaxAutoFlashes
    \/ auto_flash_returns

SpecAuto == InitAuto /\ [][NextAuto]_vars

(***************************************************************************)
(* Two worker threads of one scan, started for two ports: the same mode,   *)
(* hence the same firmware directory.                                      *)
(***************************************************************************)
InitPair ==
    \E mode \in Modes :
        /\ ports = Ports
        /\ scanner_stop_event = FALSE
        /\ hw_version_var = V191
        /\ scanning = TRUE
        /\ watchers = << [pc |-> "loop", mode |-> mode, known_ports |-> Ports,
                          target_hw_version |-> Some(V191)] >>
        /\ sessions = << NewSession(1, "COM3", mode, V191), NewSession(1, "COM4", mode, V191) >>
        /\ fw_dir = [m \in Modes |-> EmptyDir]
        /\ env = "pair"
        /\ console = ConsoleOff /\ auto = AutoOff
        /\ lock_file = None /\ procs = GuardOff /\ calc = CalcOff

NextPair ==
    \/ \E i \in DOMAIN sessions : Burn(i)
    \/ \E i \in DOMAIN sessions : Verify(i)
    \/ \E i \in DOMAIN sessions : ReadExisting(i)
    \/ \E i \in DOMAIN sessions : ReadProduction(i)
    \/ \E i \in DOMAIN sessions : Fetch(i)
    \/ \E i \in DOMAIN sessions : Flash(i)
    \/ \E i \in DOMAIN sessions : MonitorOpen(i)
    \/ \E i \in DOMAIN sessions : Monitor(i)
    \/ stop_scanner

SpecPair == InitPair /\ [][NextPair]_vars

(***************************************************************************)
(* The application through several scans: the operator stops a scan and    *)
(* picks a mode again.                                                     *)
(***************************************************************************)
NextRestart ==
    \/ \E p \in Ports : Plug(p)
    \/ \E p \in Ports : Unplug(p)
    \/ \E mode \in Modes : start_scanner(mode) /\ Len(watchers) < MaxWatchers
    \/ stop_scanner
    \/ \E w \in DOMAIN watchers : scanner_begin(w)
    \/ \E w \in DOMAIN watchers : scanner_poll(w) /\ Len(sessions') <= MaxRestartSessions
    \/ \E i \in DOMAIN sessions : Burn(i)
    \/ \E i \in DOMAIN sessions : Verify(i)
    \/ \E i \in DOMAIN sessions : ReadExisting(i)
    \/ \E i \in DOMAIN sessions : ReadProduction(i)
    \/ \E i \in DOMAIN sessions : Fetch(i)
    \/ \E i \in DOMAIN sessions : Flash(i)
    \/ \E i \in DOMAIN sessions : MonitorOpen(i)
    \/ \E i \in DOMAIN sessions : Monitor(i)

SpecRestart == Init /\ [][NextRestart]_vars

(***************************************************************************)
(* partner_flasher.py: the single-instance guard of __main__.  The pc of a *)
(* process is "off" (not launched), "check" (before os.path.exists),       *)
(* "read" (the file exists: before it is opened), "remove" (the pid read   *)
(* is stale: before os.remove), "create" (is_already_running returned      *)
(* False: before create_lock_file), "running" (the GUI is up), "refused"   *)
(* (already running: exit 1), "fatal" (the lock file could not be handled: *)
(* exit 1), "closed" (on_closing) or "dead" (killed with the GUI up).      *)
(***************************************************************************)
\* psutil.pid_exists(pid), and the process is a flasher
Alive(pid) ==
    pid \in Pids /\ procs[pid].pc \in {"check", "read", "remove", "create", "running"}

SetProc(q, pc) == procs' = [procs EXCEPT ![q].pc = pc]

\* the program is started
launch(q) ==
    /\ procs[q].pc = "off"
    /\ SetProc(q, "check")
    /\ UNCHANGED << appvars, console, auto, lock_file, calc >>

\* is_already_running: os.path.exists(lock_file)
lock_exists(q) ==
    /\ procs[q].pc = "check"
    /\ SetProc(q, IF IsNone(lock_file) THEN "create" ELSE "read")
    /\ UNCHANGED << appvars, console, auto, lock_file, calc >>

\* is_already_running: the pid is read and looked up; a file gone meanwhile
\* raises, and the os.remove of the except clause raises again
lock_read(q) ==
    /\ procs[q].pc = "read"
    /\ procs' = IF IsNone(lock_file) THEN [procs EXCEPT ![q].pc = "fatal"]
                ELSE IF Alive(The(lock_file))
                THEN [procs EXCEPT ![q].pc = "refused", ![q].pid = lock_file]
                ELSE [procs EXCEPT ![q].pc = "remove", ![q].pid = lock_file]
    /\ UNCHANGED << appvars, console, auto, lock_file, calc >>

\* is_already_running: os.remove(lock_file) of the file as it is now
lock_remove(q) ==
    /\ procs[q].pc = "remove"
    /\ IF IsNone(lock_file)
       THEN SetProc(q, "fatal") /\ UNCHANGED lock_file
       ELSE SetProc(q, "create") /\ lock_file' = None
    /\ UNCHANGED << appvars, console, auto, calc >>

\* create_lock_file: open(..., 'w') and the pid written; the GUI is created
create_lock_file(q) ==
    /\ procs[q].pc = "create"
    /\ lock_file' = Some(q)
    /\ SetProc(q, "running")
    /\ UNCHANGED << appvars, console, auto, calc >>

\* on_closing: the lock file is removed, whoever wrote it
on_closing(q) ==
    /\ procs[q].pc = "running"
    /\ lock_file' = None
    /\ SetProc(q, "closed")
    /\ UNCHANGED << appvars, console, auto, calc >>

\* the process is killed: the lock file stays
killed(q) ==
    /\ procs[q].pc = "running"
    /\ SetProc(q, "dead")
    /\ UNCHANGED << appvars, console, auto, lock_file, calc >>

InitGuard ==
    /\ AppOff
    /\ console = ConsoleOff /\ auto = AutoOff /\ calc = CalcOff
    /\ procs = GuardOff
    /\ lock_file \in {None, Some(STALE_PID)}

NextGuard ==
    \/ \E q \in Pids : launch(q)
    \/ \E q \in Pids : lock_exists(q)
    \/ \E q \in Pids : lock_read(q)
    \/ \E q \in Pids : lock_remove(q)
    \/ \E q \in Pids : create_lock_file(q)
    \/ \E q \in Pids : on_closing(q)
    \/ \E q \in Pids : killed(q)

SpecGuard == InitGuard /\ [][NextGuard]_vars

(***************************************************************************)
(* The version functions on their own: a version string is parsed by       *)
(* parse_version (gui_flasher.py; partner_flasher.py has the same          *)
(* function) and by DinoConsole.parse_version, the triple is formatted as  *)
(* read_efuse_version formats it, and read_efuse_version is applied to an  *)
(* outcome of the summary run, and the buffers for burning are built.  pc  *)
(* is "input", "parsed", "formatted", "read" or "buffered".                *)
(***************************************************************************)
\* strings of three pieces, and some of two and of four
VersionStrings ==
    LET Components ==
            { << >>, <<"0">>, <<"1">>, <<"9">>, <<"0", "1">>, <<"2", "5", "5">>,
              <<"2", "5", "6">>, <<"3", "0", "0">>, <<"-", "1">>, <<"-", "0">>,
              <<"+", "1">>, <<" ", "1">>, <<"1", "_", "0">>, <<"a">> }
        Dot == << "." >>
    IN  { a \o Dot \o b \o Dot \o c : a, b, c \in Components }
        \cup { a \o Dot \o b : a, b \in {<<"1">>, <<"9">>, << >>} }
        \cup { <<"1">> \o Dot \o a \o Dot \o b \o Dot \o <<"0">> : a, b \in {<<"9">>, <<"1">>} }
        \cup { << >>, <<"1">> }

CalcParse ==
    /\ calc.pc = "input"
    /\ calc' = [calc EXCEPT !.pc = "parsed",
                            !.parts = parse_version(calc.version_string),
                            !.console_parts = console_parse_version(calc.version_string)]
    /\ UNCHANGED << appvars, console, auto, lock_file, procs >>

\* f"{major}.{minor}.{patch}" of the triple parse_version returned, if any
CalcFormat ==
    /\ calc.pc = "parsed"
    /\ calc' = [calc EXCEPT !.pc = "formatted",
                            !.text = IF IsNone(calc.parts) THEN None
                                     ELSE LET v == The(calc.parts)
                                          IN  Some(FormatVersion(v[1], v[2], v[3]))]
    /\ UNCHANGED << appvars, console, auto, lock_file, procs >>

CalcRead ==
    /\ calc.pc = "formatted"
    /\ calc' = [calc EXCEPT !.pc = "read",
                            !.version = read_efuse_version(calc.summary).version]
    /\ UNCHANGED << appvars, console, auto, lock_file, procs >>

\* the buffers of burn_efuse and of DinoConsole.burn_board_version for the
\* version string, the clock read at some second before 2^31
CalcBuffer ==
    /\ calc.pc = "read"
    /\ \E build_timestamp \in {0, 1762160000, 2147483647} :
          calc' = [calc EXCEPT
                     !.pc = "buffered",
                     !.build_timestamp = build_timestamp,
                     !.buffer = burn_efuse(calc.version_string, "exit0", "exit0").buffer,
                     !.console_buffer =
                         IF IsNone(calc.console_parts) THEN None
                         ELSE LET v == The(calc.console_parts)
                              IN  Some(ConsoleEfuseBuffer(v[1], v[2], v[3],
                                                          build_timestamp))]
    /\ UNCHANGED << appvars, console, auto, lock_file, procs >>

InitCalc ==
    /\ AppOff
    /\ console = ConsoleOff /\ auto = AutoOff
    /\ lock_file = None /\ procs = GuardOff
    /\ \E version_string \in VersionStrings, summary \in SummaryOutcomes :
          calc = [CalcOff EXCEPT !.pc = "input", !.version_string = version_string,
                                 !.summary = summary]

NextCalc ==
    \/ CalcParse
    \/ CalcFormat
    \/ CalcRead
    \/ CalcBuffer

SpecCalc == InitCalc /\ [][NextCalc]_vars

(***************************************************************************)
(* The loop that reads the flasher's output: flash_device (gui_flasher.py) *)
(* and flash_testing_firmware (partner_flasher.py), each reading the lines *)
(* of its own esptool run; here both runs print the same lines.  A line is *)
(* the sequence of its words.                                              *)
(***************************************************************************)
\* the body of the for loop of flash_device after log_queue.put(line): the
\* flag after the line, and what was found in the line while the flag was up
stream_line(is_flashing_main_app, line) ==
    LET Within(words) ==
            \E i \in 1..(Len(line) - Len(words) + 1) :
                SubSeq(line, i, i + Len(words) - 1) = words
        begun == is_flashing_main_app
                    \/ Within(<< <<"Writing">>, <<"at">>, <<"0x00260000">> >>)
        found == IF begun THEN progress_of(line) ELSE [kind |-> "none", value |-> 0]
        ended == /\ begun /\ Within(<< <<"Wrote">> >>)
                 /\ Within(<< <<"at">>, <<"0x00260000">> >>)
    IN  [ is_flashing_main_app |-> begun /\ ~ended, found |-> found ]

\* the body of the for loop of flash_testing_firmware
partner_stream_line(line) == progress_of(line)

\* what a loop has put and read after a line in which found was found
AfterLine(reader, found) ==
    [ read |-> reader.read + 1,
      progress |-> IF found.kind = "value"
                   THEN Append(reader.progress, [line |-> reader.read + 1,
                                                 value |-> found.value])
                   ELSE reader.progress,
      raised |-> found.kind = "raise" ]

GuiStreamLine ==
    /\ calc.pc = "stream" /\ ~calc.gui.raised /\ calc.gui.read < Len(calc.lines)
    /\ LET r == stream_line(calc.is_flashing_main_app, calc.lines[calc.gui.read + 1])
       IN  calc' = [calc EXCEPT !.is_flashing_main_app = r.is_flashing_main_app,
                                !.gui = AfterLine(@, r.found)]
    /\ UNCHANGED << appvars, console, auto, lock_file, procs >>

PartnerStreamLine ==
    /\ calc.pc = "stream" /\ ~calc.partner.raised /\ calc.partner.read < Len(calc.lines)
    /\ calc' = [calc EXCEPT !.partner =
                    AfterLine(@, partner_stream_line(calc.lines[calc.partner.read + 1]))]
    /\ UNCHANGED << appvars, console, auto, lock_file, procs >>

\* esptool's lines for the bootloader at 0x0 and the application at 0x260000:
\* progress lines with a percentage, the line that ends an image, and a line
\* with neither
InitStream ==
    /\ AppOff
    /\ console = ConsoleOff /\ auto = AutoOff
    /\ lock_file = None /\ procs = GuardOff
    /\ \E n \in 0..MaxLines :
          \E lines \in [1..n ->
                { << <<"Writing">>, <<"at">>, <<"0x00000000">>, <<"1", "0", "0", ".", "0", "%">> >>,
                  << <<"Wrote">>, <<"at">>, <<"0x00000000">> >>,
                  << <<"Writing">>, <<"at">>, <<"0x00260000">>, <<"0", ".", "0", "%">> >>,
                  << <<"Writing">>, <<"at">>, <<"0x00270000">>, <<"1", "4", ".", "3", "%">> >>,
                  << <<"Wrote">>, <<"at">>, <<"0x00260000">> >>,
                  << <<"Hash">>, <<"verified">> >> }] :
              calc = [CalcOff EXCEPT !.pc = "stream", !.lines = lines]

NextStream ==
    \/ GuiStreamLine
    \/ PartnerStreamLine

SpecStream == InitStream /\ [][NextStream]_vars

(***************************************************************************)
(* Properties.                                                             *)
(***************************************************************************)
Threads == { sessions[i] : i \in DOMAIN sessions }

ErrorTone(s) == \E k \in DOMAIN s.tones : s.tones[k] = ERROR_FREQ
\* flash_device was called / the flasher tool was run
FlashDeviceCalled(s) == s.downloads # << >> \/ s.flashes # << >>
FlasherRun(s) == s.flashes # << >>
HasRead(s) == s.reads > 0

\* C1: for each serial port at most one worker thread is running, in every
\* reachable state, also when the port disappears and reappears while the
\* thread started for its earlier appearance has not yet exited.
C1_OneSessionPerPort ==
    \A i, j \in DOMAIN sessions :
        (i # j /\ Running(sessions[i]) /\ Running(sessions[j]))
            => sessions[i].port # sessions[j].port

\* the thread a step starts for port p, by watcher w
Spawned(w, p) ==
    /\ Len(sessions') = Len(sessions) + 1
    /\ sessions'[Len(sessions')].port = p
    /\ sessions'[Len(sessions')].watcher = w

\* C2: a scanner_worker starts no thread for a port that is in its known set
\* and enumerated at the poll (so a port enumerated at two successive polls of
\* the worker gets one thread, not two), it starts at most one thread per
\* poll, and the port it starts a thread for is in the known set after that poll.
C2_OneSessionPerAppearance ==
    [][ \A w \in DOMAIN watchers : \A p \in Ports :
          /\ (p \in watchers[w].known_ports /\ p \in ports) => ~Spawned(w, p)
          /\ Spawned(w, p) => (p \notin watchers[w].known_ports
                                /\ p \in watchers'[w].known_ports)
          /\ Len(sessions') <= Len(sessions) + 1 ]_vars

\* two ports each got a thread from the same worker and both are still known
\* and enumerated: the first was enumerated again at the poll that took the second
C2_Witness ==
    /\ Len(sessions) = 2
    /\ sessions[1].port # sessions[2].port
    /\ sessions[1].watcher = sessions[2].watcher
    /\ {sessions[1].port, sessions[2].port} \subseteq watchers[sessions[1].watcher].known_ports
    /\ {sessions[1].port, sessions[2].port} \subseteq ports

\* C3: a testing-mode thread whose burn succeeded and whose read-back is not
\* exactly the target (another version, or None) has ended in the verification
\* failure and has called neither download_firmware nor the flasher.
C3_MismatchAborts ==
    \A s \in Threads :
        (s.mode = "testing" /\ s.burn_successful = "True" /\ HasRead(s)
            /\ s.read_version # Some(s.target))
        => /\ s.pc = "done"
           /\ s.failure = "verification_failed"
           /\ ~FlashDeviceCalled(s)

\* the read-back returned a version, but not the target string
C3_Witness ==
    \E s \in Threads :
        /\ s.mode = "testing" /\ s.burn_successful = "True" /\ HasRead(s)
        /\ ~IsNone(s.read_version) /\ s.read_version # Some(s.target)
        /\ s.pc = "done"

\* C4: flash_device is called only in a thread whose eFuse read returned a
\* version; a production thread whose read returned None has ended without
\* calling it.
C4_FlashOnlyWithVersion ==
    \A s \in Threads :
        /\ (FlashDeviceCalled(s) \/ s.pc \in {"fetch", "flash"})
              => (HasRead(s) /\ ~IsNone(s.read_version))
        /\ (s.mode = "production" /\ HasRead(s) /\ IsNone(s.read_version))
              => (s.pc = "done" /\ s.failure = "production_no_version"
                  /\ ~FlashDeviceCalled(s))

C4_Witness ==
    \E s \in Threads :
        s.mode = "production" /\ HasRead(s) /\ IsNone(s.read_version) /\ s.pc = "done"

\* C5: a production thread never runs the burn command, and every version it
\* fetches or flashes for is the one read_efuse_version returned.
C5_ProductionNeverBurns ==
    \A s \in Threads :
        s.mode = "production"
        => /\ s.burn_cmds = 0
           /\ s.burn_successful = "unset"
           /\ \A k \in DOMAIN s.downloads : Some(s.downloads[k]) = s.read_version
           /\ \A k \in DOMAIN s.flashes : Some(s.flashes[k].hw) = s.read_version

\* a production thread ran the flasher, for a version other than the target
C5_Witness ==
    \E s \in Threads :
        /\ s.mode = "production" /\ FlasherRun(s)
        /\ s.read_version # Some(s.target)

\* C6: a testing thread whose burn failed and whose read returned a version E
\* fetches and flashes for E, whatever the target, and does not fail for the
\* mismatch (it can still fail in the fetch, the flash or the monitor).
C6_FallbackToExisting ==
    \A s \in Threads :
        (s.mode = "testing" /\ s.burn_successful = "False" /\ HasRead(s)
            /\ ~IsNone(s.read_version))
        => /\ s.flash_hw_version = s.read_version
           /\ s.failure \in {"none", "fetch_failed", "flash_failed", "monitor_open_failed"}
           /\ FlashDeviceCalled(s) \/ s.pc = "fetch"
           /\ \A k \in DOMAIN s.downloads : Some(s.downloads[k]) = s.read_version
           /\ \A k \in DOMAIN s.flashes : Some(s.flashes[k].hw) = s.read_version

\* the burn command ran and was refused, 1.8.0 was read, the target is 1.9.1,
\* and the flash for 1.8.0 succeeded
C6_Witness ==
    \E s \in Threads :
        /\ s.mode = "testing" /\ s.burn_successful = "False" /\ s.burn_cmds = 1
        /\ s.target = V191 /\ s.read_version = Some(V180)
        /\ FlasherRun(s) /\ s.flashes[1].hw = V180 /\ s.flashes[1].out.rc = 0
        /\ s.flashes[1].out.kind = "exit"
        /\ s.monitor_entered /\ s.failure = "none"

\* the conditions of C7: burn succeeded, read-back equal to the target, the
\* download succeeded and the flasher exited 0
HappyPath(s) ==
    /\ s.mode = "testing" /\ s.burn_successful = "True"
    /\ s.read_version = Some(s.target)
    /\ FlasherRun(s)
    /\ s.flashes[Len(s.flashes)].out.kind = "exit"
    /\ s.flashes[Len(s.flashes)].out.rc = 0

\* C7: a testing thread whose burn succeeded, whose read-back equals the target,
\* whose download succeeded and whose flasher exited 0 has entered
\* serial_monitor_thread and has played no error tone; nor has it played one
\* at any earlier point of that path.
C7_HappyPathReachesMonitor ==
    \A s \in Threads :
        /\ HappyPath(s) => (s.monitor_entered /\ ~ErrorTone(s)
                            /\ s.pc \in {"monitor_open", "monitor", "done"})
        /\ (s.mode = "testing" /\ s.burn_successful = "True"
              /\ (HasRead(s) => s.read_version = Some(s.target))
              /\ s.pc \in {"verify", "fetch", "flash"}) => ~ErrorTone(s)

C7_Witness ==
    \E s \in Threads : HappyPath(s) /\ s.pc = "monitor" /\ s.tones = << START_FREQ, END_FREQ >>

\* C8: a thread whose flasher exited nonzero with the lockout marker in its
\* output ends in failure and reports the USB-locked-out message, not the
\* generic flash-failed line.
C8_LockoutReported ==
    \A s \in Threads :
        (FlasherRun(s) /\ s.flashes[Len(s.flashes)].out.kind = "exit"
            /\ s.flashes[Len(s.flashes)].out.rc # 0
            /\ s.flashes[Len(s.flashes)].out.lockout)
        => /\ s.pc = "done" /\ s.failure = "flash_failed"
           /\ \E k \in DOMAIN s.errlog : s.errlog[k] = L_USB_LOCKED

\* C9: once a thread has reported a failure it takes no further step (its
\* record never changes again and it has exited); the burn command and the
\* flasher each run at most once in a thread.
C9_FailureIsTerminal ==
    /\ [](\A s \in Threads :
            /\ s.burn_cmds <= 1
            /\ Len(s.flashes) <= 1
            /\ s.failure # "none" => s.pc = "done")
    /\ [][ \A i \in DOMAIN sessions :
             sessions[i].failure # "none" => sessions'[i] = sessions[i] ]_vars

\* a thread that failed in the flasher, after one burn and one flasher run
C9_Witness ==
    \E s \in Threads :
        s.failure = "flash_failed" /\ s.burn_cmds = 1 /\ Len(s.flashes) = 1 /\ s.pc = "done"

\* C10: every thread that ended in failure played at least one error tone
\* and logged at least one error line.
C10_FailureToneAndLog ==
    \A s \in Threads :
        (s.pc = "done" /\ s.failure # "none") => (ErrorTone(s) /\ s.errlog # << >>)

\* C11: every run of the burn command and every production flash in the
\* history comes after a confirmation the operator accepted, given within the
\* same command of the operator.
C11_ConfirmedBeforeIrreversible ==
    LET Operations ==
            { "dino> flash production <port>", "dino> flash testing <port>",
              "dino> burn efuse <port>", "dino> burn efuse <port> --test",
              "button Flash Production", "button Burn eFuse" }
        Irreversible(e) == e \in {"espefuse burn_block_data BLOCK3", "esptool write_flash (production)"}
        Accepts(e) == e \in {"typed YES", "askokcancel: OK"}
    IN  \A k \in DOMAIN console.history :
            Irreversible(console.history[k])
            => \E j \in 1..(k - 1) :
                  /\ Accepts(console.history[j])
                  /\ \A m \in j..k : console.history[m] \notin Operations

\* C12: a watcher that has entered its loop and has not left it can take its
\* next turn whatever the devices being worked on are doing: the turn of
\* scanner_worker, and the turn of the loop of auto_flasher.main, is enabled
\* in every such state.
C12_WatcherNeverBlocked ==
    /\ \A w \in DOMAIN watchers : watchers[w].pc = "loop" => ENABLED scanner_poll(w)
    /\ auto.pc \in {"poll", "flashing"} => ENABLED auto_poll

\* C13: every run of the flasher is given the four image files, whatever the
\* thread of the other port does in between: a thread whose fetch succeeded
\* flashes a full directory.
C13_SessionsIndependent ==
    \A s \in Threads :
        \A k \in DOMAIN s.flashes :
            \A f \in 1..NFiles : ~IsNone(s.flashes[k].files[f])

\* C14: while the monitor loop runs, a serial exception ends it at once, and
\* when the port is no longer enumerated the next idle turn ends it: the
\* disconnection is logged, the port closed, and the function returns to
\* process_device_thread, which ends without a failure.  AfterTurn is the
\* thread after the turn of the monitor loop it would take now; Returned says
\* that the loop was left and the function returned, nothing raised and
\* nothing reported.
C14_MonitorExitsOnDisconnect ==
    LET AfterTurn(s, event) ==
            monitor_turn(s, scanner_stop_event, s.port \in ports, event)
        Returned(s, t) ==
            /\ t.pc = "done" /\ t.failure = "none"
            /\ t.errlog = s.errlog /\ t.tones = s.tones
            /\ t.monitor_end = IF scanner_stop_event THEN "stopped" ELSE "disconnected"
    IN  \A s \in Threads :
            /\ s.pc = "monitor" => Returned(s, AfterTurn(s, "serial_exception"))
            /\ (s.pc = "monitor" /\ s.port \notin ports)
                  => Returned(s, AfterTurn(s, "idle"))
            /\ s.monitor_end = "disconnected" => (s.pc = "done" /\ s.failure = "none")

\* a monitor that ended for the disconnection, the stop event not set
C14_Witness ==
    \E s \in Threads :
        /\ s.monitor_end = "disconnected" /\ s.port \notin ports
        /\ ~scanner_stop_event /\ s.pc = "done"

\* C15: a scanner_worker whose scan was stopped starts no further thread,
\* also when the operator has started a new scan since.  The scan of watcher
\* w was stopped when the operator has started a later one (the mode buttons
\* are shown only after stop_scanner) or no scan is on.
C15_StoppedWatcherSpawnsNothing ==
    [][ \A w \in DOMAIN watchers : \A p \in Ports :
          (w < Len(watchers) \/ ~scanning) => ~Spawned(w, p) ]_vars

\* C16: at most one process of the partner flasher has passed the guard and
\* has its GUI up.
C16_SingleInstance ==
    Cardinality({ q \in Pids : procs[q].pc = "running" }) <= 1

\* C17: a thread makes its calls one at a time and in the order burn, read,
\* fetch, flash, monitor: it reads only after burn_efuse returned (testing
\* mode), fetches only once a version is decided, runs the flasher only after
\* a download that returned True (the four files in place), enters the
\* monitor only after the flasher exited 0, and never goes back to an earlier
\* call nor repeats one other than the turn of the monitor loop.  Rank is
\* the place of a call in the sequence of process_device_thread.
C17_StepsInOrder ==
    /\ [](\A s \in Threads :
            /\ (HasRead(s) /\ s.mode = "testing") => s.burn_successful # "unset"
            /\ s.pc = "burn" => (~HasRead(s) /\ ~FlashDeviceCalled(s) /\ ~s.monitor_entered)
            /\ s.reads <= 1 /\ Len(s.downloads) <= 1 /\ Len(s.flashes) <= 1
            /\ s.downloads # << >> =>
                  (HasRead(s) /\ Truthy(s.flash_hw_version)
                   /\ s.downloads[1] = The(s.flash_hw_version))
            /\ (FlasherRun(s) \/ s.pc = "flash") =>
                  (s.downloads # << >> /\ s.failure # "fetch_failed")
            /\ FlasherRun(s) => \A f \in 1..NFiles : ~IsNone(s.flashes[1].files[f])
            /\ s.monitor_entered =>
                  (FlasherRun(s) /\ s.flashes[1].out.kind = "exit"
                   /\ s.flashes[1].out.rc = 0)
            /\ s.pc \in {"monitor_open", "monitor"} => s.monitor_entered)
    /\ [][ LET Rank(pc) ==
                 CASE pc = "burn" -> 1
                   [] pc \in {"verify", "read_existing", "read_production"} -> 2
                   [] pc = "fetch" -> 3
                   [] pc = "flash" -> 4
                   [] pc = "monitor_open" -> 5
                   [] pc = "monitor" -> 6
                   [] pc = "done" -> 7
           IN  \A i \in DOMAIN sessions :
                  \/ sessions'[i] = sessions[i]
                  \/ Rank(sessions'[i].pc) > Rank(sessions[i].pc) ]_vars

\* a thread that made all five calls and is in the monitor loop
C17_Witness ==
    \E s \in Threads :
        /\ s.burn_cmds = 1 /\ s.reads = 1 /\ Len(s.downloads) = 1 /\ Len(s.flashes) = 1
        /\ s.monitor_entered /\ s.pc = "monitor"

\* C18: a version string that parse_version accepts with its three components
\* in 0..255 is given back unchanged by f"{major}.{minor}.{patch}".
C18_ParseFormatRoundTrip ==
    (/\ calc.pc \in {"formatted", "read"} /\ ~IsNone(calc.parts)
     /\ \A i \in 1..3 : The(calc.parts)[i] \in 0..BYTE_MAX)
        => calc.text = Some(calc.version_string)

\* C19: whatever parse_version (GUI and partner flasher) or
\* DinoConsole.parse_version returns other than None is a triple of integers
\* in 0..255, made from a string of exactly three pieces.
C19_ParseRejectsOutOfRange ==
    calc.pc \in {"parsed", "formatted", "read"}
        => /\ ~IsNone(calc.parts) =>
                 (/\ Len(split(calc.version_string)) = 3
                  /\ \A i \in 1..3 : The(calc.parts)[i] \in 0..BYTE_MAX)
           /\ ~IsNone(calc.console_parts) =>
                 (/\ Len(split(calc.version_string)) = 3
                  /\ \A i \in 1..3 : The(calc.console_parts)[i] \in 0..BYTE_MAX)

\* C20: read_efuse_version returns None, and never "0.0.0", when the summary
\* run fails, when the output has no user-data block with three readable
\* bytes, or when those bytes are zero; otherwise the decimal string of the
\* first three bytes of that block.  The block's entry is the words from its
\* label up to the next label.
C20_ReadContract ==
    LET BlockEntry(output) ==
            LET starts == { i \in DOMAIN output : output[i] = LABEL_BLOCK3 }
            IN  IF starts = {} THEN << >>
                ELSE LET i == CHOOSE x \in starts : \A y \in starts : x <= y
                         later == { j \in DOMAIN output :
                                      j > i /\ output[j] \in {LABEL_BLOCK3, LABEL_BLOCK4} }
                         last == IF later = {} THEN Len(output)
                                 ELSE (CHOOSE x \in later : \A y \in later : x <= y) - 1
                     IN  SubSeq(output, i, last)
        ContractVersion(summary) ==
            IF summary.kind # "output" THEN None
            ELSE LET m == re_search(BlockEntry(summary.output))
                 IN  IF IsNone(m) THEN None
                     ELSE LET major == int16(The(m)[1])
                              minor == int16(The(m)[2])
                              patch == int16(The(m)[3])
                          IN  IF major = 0 /\ minor = 0 /\ patch = 0 THEN None
                              ELSE Some(FormatVersion(major, minor, patch))
    IN  calc.pc = "read"
            => /\ calc.version = ContractVersion(calc.summary)
               /\ calc.version # Some(<<"0", ".", "0", ".", "0">>)

\* C21: the build download_firmware selects supports the version asked for,
\* by equality of the strings, and no build of the list that supports it has a
\* later created_at; of several with the latest date it is the first in the
\* list, so the selection is a function of the list and the version.  If no
\* build of the list supports the version none is selected, nothing is
\* downloaded and the thread ends in the fetch failure.
C21_LatestCompatibleBuild ==
    \A s \in Threads :
        (s.downloads # << >> /\ ~IsNone(s.builds))
        => LET v == s.downloads[Len(s.downloads)]
               list == The(s.builds)
               supports == { k \in DOMAIN list : v \in list[k].supported_versions }
               latest == { k \in supports :
                             \A j \in supports : list[j].created_at <= list[k].created_at }
           IN  IF supports = {}
               THEN /\ IsNone(s.latest_build)
                    /\ s.pc = "done" /\ s.failure = "fetch_failed"
                    /\ ~FlasherRun(s)
                    /\ fw_dir[s.mode] = EmptyDir
               ELSE /\ latest # {}
                    /\ s.latest_build =
                          Some(list[CHOOSE k \in latest : \A j \in latest : k <= j].id)
                    /\ \A f \in 1..NFiles :
                          fw_dir[s.mode][f] \in {None, s.latest_build}

\* the list held an older build and two of the latest date, all supporting
\* the version: the first of the two was downloaded and flashed
C21_Witness ==
    \E s \in Threads :
        /\ ~IsNone(s.builds) /\ Len(The(s.builds)) = 3
        /\ s.downloads = << V191 >>
        /\ s.latest_build = Some("b2")
        /\ FlasherRun(s) /\ s.flashes[1].files = [f \in 1..NFiles |-> Some("b2")]

C23_KnownSet ==
    [][ \A w \in DOMAIN watchers : \A p \in Ports :
          /\ Spawned(w, p)
                => (watchers[w].pc = "loop" /\ p \in ports
                    /\ p \notin watchers[w].known_ports)
          /\ (watchers[w].pc = "start" /\ watchers'[w].pc = "loop")
                => (watchers'[w].known_ports = ports /\ sessions' = sessions)
          /\ watchers'[w].known_ports # watchers[w].known_ports
                => (watchers'[w].known_ports \subseteq ports /\ ports' = ports)
          /\ (watchers[w].pc = "loop" /\ watchers'[w].known_ports # watchers[w].known_ports
                /\ p \in watchers[w].known_ports /\ p \notin ports)
                => p \notin watchers'[w].known_ports ]_vars

\* a port was known, went away, was forgotten, came back and got its second
\* thread from the same worker
C23_Witness ==
    /\ Len(sessions) = 2
    /\ sessions[1].port = sessions[2].port
    /\ sessions[1].watcher = sessions[2].watcher
    /\ sessions[1].port \in watchers[sessions[1].watcher].known_ports

\* C24: at most one scanner_worker is in its poll loop with the stop event
\* clear, whatever start_scanner and stop_scanner calls came before.
C24_OneWatcherLoop ==
    ~scanner_stop_event
        => Cardinality({ w \in DOMAIN watchers : watchers[w].pc = "loop" }) <= 1

\* C25: every run of the flasher is given, as its four files, the files of
\* the build the same thread selected and downloaded for its own
\* flash_hw_version, whatever the threads of the other ports do in between.
C25_FlashesOwnDownload ==
    \A s \in Threads :
        \A k \in DOMAIN s.flashes :
            /\ ~IsNone(s.latest_build)
            /\ s.flashes[k].files = [f \in 1..NFiles |-> s.latest_build]

\* C26: a testing thread whose target parse_version accepts with components
\* that fit in a byte, whose burn succeeded and whose read-back is the version
\* of the three bytes written, does not end in the verification failure: it
\* goes on to flash_device.
C26_FaithfulBurnVerifies ==
    \A s \in Threads :
        LET version_parts == parse_version(s.target)
        IN  (/\ s.mode = "testing" /\ s.burn_successful = "True" /\ HasRead(s)
             /\ ~IsNone(version_parts)
             /\ \A i \in 1..3 : The(version_parts)[i] \in 0..BYTE_MAX
             /\ s.read_version = Some(FormatVersion(The(version_parts)[1],
                                                    The(version_parts)[2],
                                                    The(version_parts)[3])))
            => /\ s.failure # "verification_failed"
               /\ s.pc = "fetch" \/ FlashDeviceCalled(s)

C28_ProbeNeverBlocksBurn ==
    \A s \in Threads :
        LET version_parts == parse_version(s.target)
            valid == /\ ~IsNone(version_parts)
                     /\ \A i \in 1..3 : The(version_parts)[i] \in 0..BYTE_MAX
        IN  /\ (s.reset # "none" /\ valid)
                  => (s.burn_cmds = 1 /\ s.burn_successful \in {"True", "False"})
            /\ (s.mode = "testing" /\ valid)
                  => \A probe \in ProbeOutcomes, cmd \in ToolExits :
                        /\ burn_efuse(s.target, probe, cmd).cmd_run
                        /\ burn_efuse(s.target, probe, cmd).ret
                              = (IF cmd = "exit0" THEN "True" ELSE "False")

\* the probe raised and the burn command then succeeded
C28_Witness ==
    \E s \in Threads :
        s.reset = "raise" /\ s.burn_cmds = 1 /\ s.burn_successful = "True"

\* C29: every ('progress', n) item the GUI flasher or the partner flasher puts
\* while reading the flasher's output is put for a line between a line with
\* "Writing at 0x00260000" and the next line with "Wrote" and
\* "at 0x00260000", both included, and n is an integer in 0..100.
C29_ProgressOnlyInWindow ==
    LET Within(line, words) ==
            \E i \in 1..(Len(line) - Len(words) + 1) :
                SubSeq(line, i, i + Len(words) - 1) = words
        Begins(i) ==
            Within(calc.lines[i], << <<"Writing">>, <<"at">>, <<"0x00260000">> >>)
        Ends(i) ==
            /\ Within(calc.lines[i], << <<"Wrote">> >>)
            /\ Within(calc.lines[i], << <<"at">>, <<"0x00260000">> >>)
        InWindow(i) ==
            \E b \in 1..i : Begins(b) /\ \A e \in b..(i - 1) : ~Ends(e)
        Allowed(progress) ==
            \A k \in DOMAIN progress :
                InWindow(progress[k].line) /\ progress[k].value \in 0..100
    IN  calc.pc = "stream" => (Allowed(calc.gui.progress) /\ Allowed(calc.partner.progress))

\* C30: for a version with components in 0..255, the buffer written for
\* burning has 32 bytes, the version in bytes 0..2 and zeros in bytes 8..31;
\* the buffer of the GUI and partner flashers has zeros in bytes 3..7 too, and
\* the console's buffer has the build timestamp in bytes 3..6, lowest byte
\* first, and the build location 0 in byte 7.
C30_BurnRecordLayout ==
    LET Layout(buffer, v) ==
            /\ Len(buffer) = EFUSE_RECORD_LEN
            /\ buffer[1] = v[1] /\ buffer[2] = v[2] /\ buffer[3] = v[3]
            /\ \A i \in 9..EFUSE_RECORD_LEN : buffer[i] = 0
        InRange(v) == \A i \in 1..3 : v[i] \in 0..BYTE_MAX
    IN  calc.pc = "buffered" =>
          /\ (~IsNone(calc.parts) /\ InRange(The(calc.parts))) =>
                /\ ~IsNone(calc.buffer)
                /\ Layout(The(calc.buffer), The(calc.parts))
                /\ \A i \in 4..8 : The(calc.buffer)[i] = 0
          /\ (~IsNone(calc.console_parts) /\ InRange(The(calc.console_parts))) =>
                /\ ~IsNone(calc.console_buffer)
                /\ Layout(The(calc.console_buffer), The(calc.console_parts))
                /\ \A i \in 4..7 : The(calc.console_buffer)[i] \in 0..BYTE_MAX
                /\ The(calc.console_buffer)[4] + 256 * The(calc.console_buffer)[5]
                      + 65536 * The(calc.console_buffer)[6]
                      + 16777216 * The(calc.console_buffer)[7] = calc.build_timestamp
                /\ The(calc.console_buffer)[8] = 0

\* both buffers built for "1.9.1" at a second whose four bytes all differ from 0
C30_Witness ==
    /\ calc.pc = "buffered"
    /\ calc.parts = Some(<<1, 9, 1>>) /\ calc.console_parts = Some(<<1, 9, 1>>)
    /\ calc.build_timestamp = 1762160000
    /\ ~IsNone(calc.buffer) /\ ~IsNone(calc.console_buffer)
    /\ \A i \in 4..7 : The(calc.console_buffer)[i] # 0

=============================================================================
